---- MODULE Spec2Model ----
(***************************************************************************)
(* The food-logging extraction pipeline of ai-food-logger:                 *)
(*   OpenAIService.parseAndEstimateNutrition, InsightsService and          *)
(*   BrandService (backend services), the response cleaning both services  *)
(*   apply to the collaborator's text, the demo text-logging entry points  *)
(*   (Netlify log-text function, MockApiService.processTextLog), the       *)
(*   text and voice routes of the API server, and the web client: the      *)
(*   text and voice handlers of the food log and the client ErrorLogger.   *)
(*                                                                         *)
(* Collaborator text is a sequence of tokens.  Each token is a piece of    *)
(* text the cleaning regexes treat as a unit: "FENCE" (three backticks), *)
(* "json", a space, a newline, ",", "{", "}", "[", "]", "x" (any other     *)
(* character), "M" (the members text of a JSON object) and "A" (the text   *)
(* of a JSON value that is not an object).                                 *)
(***************************************************************************)
EXTENDS Integers, Sequences, FiniteSets, TLC

VARIABLES
  pc,              \* position of parseAndEstimateNutrition
  response,        \* outcome of the primary chat.completions.create call
  parsedResponse,  \* JSON.parse(cleanedResponse)
  totalCalories,   \* the reduce over parsedResponse.items
  calls,           \* per item: state of the async map callback
  result,          \* the VoiceLogResponse returned
  caught,          \* the error caught by the catch block
  thrown,          \* the error thrown to the caller
  prev,            \* the previous request's failure, as the caller saw it
  sanIn,           \* cleaning: the collaborator text
  sanPath,         \* cleaning: which service cleans it
  sanOut,          \* cleaning: texts after one and after two applications
  demoText,        \* demo entry points: request text
  demoOut,         \* demo entry points: response
  brandCtx,        \* detectBrand: the context it is called with
  brandOut,        \* detectBrand: what each call so far returned
  giItems,         \* generateItemInsights: its argument
  giSt,            \* generateItemInsights: state of the promise it returned
  giCalls,         \* generateItemInsights: per item, state of the map callback
  giReplies,       \* generateItemInsights: per item, the collaborator's reply
  giOut,           \* generateItemInsights: the array it resolved with
  httpReq,         \* API server: the request
  httpPc,          \* API server: position of the route handler
  transcriptionResult, \* API server: what transcribeAudio returned
  httpCalls,       \* API server: arguments of parseAndEstimateNutrition calls
  httpCaught,      \* API server: the error raised inside the failing call
  httpRes,         \* API server: the response sent
  textInput,       \* web client: content of the text area
  foodEntries,     \* web client: the day's log
  isLoading,       \* web client: the loading flag
  toast,           \* web client: the toast last shown
  data,            \* web client: the body the text endpoint last answered
  textPc,          \* web client: position of handleTextSubmit
  voicePc,         \* web client: position of handleVoiceLog on a recording
  logs,            \* ErrorLogger: the buffer
  sends,           \* ErrorLogger: bodies of the sends in flight
  serverLogged,    \* API server: client entries it has logged
  nextId           \* ErrorLogger: the timestamp of the next entry

vars == <<pc, response, parsedResponse, totalCalories, calls, result, caught,
          thrown, prev, sanIn, sanPath, sanOut, demoText, demoOut,
          brandCtx, brandOut, giItems, giSt, giCalls, giReplies, giOut,
          httpReq, httpPc, transcriptionResult, httpCalls, httpCaught,
          httpRes, textInput, foodEntries, isLoading, toast, data, textPc,
          voicePc, logs, sends, serverLogged, nextId>>

pipeVars == <<pc, response, parsedResponse, totalCalories, calls, result,
              caught, thrown, prev>>

sanVars == <<sanIn, sanPath, sanOut>>

demoVars == <<demoText, demoOut>>

brandVars == <<brandCtx, brandOut>>

giVars == <<giItems, giSt, giCalls, giReplies, giOut>>

httpVars == <<httpReq, httpPc, transcriptionResult, httpCalls, httpCaught,
              httpRes>>

clientVars == <<textInput, foodEntries, isLoading, toast, data, textPc,
                voicePc, logs, sends, serverLogged, nextId>>

\* what the actions of each component leave alone
notPipe == <<sanVars, demoVars, brandVars, giVars, httpVars, clientVars>>

notSan == <<pipeVars, demoVars, brandVars, giVars, httpVars, clientVars>>

notDemo == <<pipeVars, sanVars, brandVars, giVars, httpVars, clientVars>>

notBrand == <<pipeVars, sanVars, demoVars, giVars, httpVars, clientVars>>

notGi == <<pipeVars, sanVars, demoVars, brandVars, httpVars, clientVars>>

notHttp == <<pipeVars, sanVars, demoVars, brandVars, giVars, clientVars>>

notClient == <<pipeVars, sanVars, demoVars, brandVars, giVars, httpVars>>

-----------------------------------------------------------------------------
(* Bounds *)

\* longest items array the collaborator returns
MaxItems == 2

\* longest collaborator text (in tokens) given to the cleaning steps
MaxLen == 4

\* longest request text (in words) given to the demo entry points
MaxWords == 2

\* calls of detectBrand with one context
MaxCalls == 2

\* longest array given to generateItemInsights
MaxBatch == 2

\* longest day's log of the web client
MaxEntries == 2

\* entries the client ErrorLogger is given in all
MaxLogged == 2

\* sends of the client ErrorLogger in flight at once
MaxSends == 2

-----------------------------------------------------------------------------
(* JavaScript values, as JSON.parse yields them *)

Undef == [t |-> "undefined", n |-> 0, s |-> ""]

Null == [t |-> "null", n |-> 0, s |-> ""]

NaN == [t |-> "NaN", n |-> 0, s |-> ""]

Num(k) == [t |-> "number", n |-> k, s |-> ""]

Str(x) == [t |-> "string", n |-> 0, s |-> x]

\* ToBoolean
Truthy(v) ==
  /\ v.t \notin {"undefined", "null", "NaN"}
  /\ ~(v.t = "number" /\ v.n = 0)
  /\ ~(v.t = "string" /\ v.s = "")

DigitStr(d) ==
  CASE d = 0 -> "0" [] d = 1 -> "1" [] d = 2 -> "2" [] d = 3 -> "3"
    [] d = 4 -> "4" [] d = 5 -> "5" [] d = 6 -> "6" [] d = 7 -> "7"
    [] d = 8 -> "8" [] OTHER -> "9"

RECURSIVE NatStr(_)
NatStr(k) == IF k < 10 THEN DigitStr(k) ELSE NatStr(k \div 10) \o DigitStr(k % 10)

\* ToString
JsToString(v) ==
  CASE v.t = "string" -> v.s
    [] v.t = "number" -> IF v.n < 0 THEN "-" \o NatStr(-v.n) ELSE NatStr(v.n)
    [] v.t = "NaN" -> "NaN"
    [] v.t = "null" -> "null"
    [] OTHER -> "undefined"

\* ToNumber of a value that is not a string
ToNumber(v) ==
  CASE v.t = "number" -> v
    [] v.t = "null" -> Num(0)
    [] OTHER -> NaN

\* the + operator
JsAdd(a, b) ==
  IF a.t = "string" \/ b.t = "string"
  THEN Str(JsToString(a) \o JsToString(b))
  ELSE IF ToNumber(a).t = "NaN" \/ ToNumber(b).t = "NaN"
       THEN NaN
       ELSE Num(ToNumber(a).n + ToNumber(b).n)

-----------------------------------------------------------------------------
(* FoodItem objects as the collaborator may return them *)

Item(name, cal, ctx, qty, unit, desc) ==
  [t |-> "object", name |-> name, estimatedCalories |-> cal, context |-> ctx,
   quantity |-> qty, unit |-> unit, description |-> desc]

\* a null element of the items array
NullItem ==
  [t |-> "null", name |-> Undef, estimatedCalories |-> Undef, context |-> Undef,
   quantity |-> Undef, unit |-> Undef, description |-> Undef]

CoffeeItem ==
  Item(Str("Coffee"), Num(25), Null, Num(5), Str("cup"), Str("5 cups of coffee"))

LagerItem ==
  Item(Str("Lager"), Num(540), Str("from Pret"), Num(3), Str("pint"),
       Str("3 pints of lager"))

\* negative calories, quantity zero
NegativeItem ==
  Item(Str("Water"), Num(-5), Null, Num(0), Str("cup"), Undef)

\* no name, calories a string
StrCalItem ==
  Item(Undef, Str("2"), Str("mcd"), Undef, Undef, Undef)

\* empty name, no calories, unit of the wrong type
NoCalItem ==
  Item(Str(""), Undef, Null, Num(1), Num(3), Undef)

\* context of the wrong type
NumCtxItem ==
  Item(Str("Tea"), Num(2), Num(7), Num(1), Str("cup"), Str("1 cup of tea"))

ValidItems == {CoffeeItem, LagerItem}

ItemCandidates ==
  ValidItems \cup {NegativeItem, StrCalItem, NoCalItem, NumCtxItem, NullItem}

\* what the Schema Validator of the specification requires of one element
WellFormedItem(it) ==
  /\ it.t = "object"
  /\ it.name.t = "string" /\ it.name.s # ""
  /\ it.estimatedCalories.t = "number" /\ it.estimatedCalories.n >= 0
  /\ it.quantity.t \in {"undefined", "number"}
  /\ it.unit.t \in {"undefined", "string"}
  /\ it.context.t \in {"undefined", "null", "string"}
  /\ it.description.t \in {"undefined", "string"}

RECURSIVE SeqsUpTo(_, _)
SeqsUpTo(S, k) ==
  IF k = 0 THEN {<<>>}
  ELSE LET shorter == SeqsUpTo(S, k - 1)
       IN  shorter \cup {Append(q, x) : q \in {r \in shorter : Len(r) = k - 1}, x \in S}

\* the value of the items property
ItemsArray(a) == [t |-> "array", a |-> a]

NoItems == [t |-> "undefined", a |-> <<>>]

NotAnArray == [t |-> "string", a |-> <<>>]

\* the value JSON.parse returns
Parsed(t, meal, items, total) ==
  [t |-> t, meal |-> meal, items |-> items, totalEstimatedCalories |-> total]

NoParsed == Parsed("none", Undef, NoItems, Undef)

MealVals == {Undef, Str(""), Str("Lunch"), Str("General"), Num(5)}

ReportedTotals == {Undef, Num(565)}

ItemsVals(S) == {NoItems, NotAnArray} \cup {ItemsArray(a) : a \in SeqsUpTo(S, MaxItems)}

ObjectVals(S) ==
  {Parsed("object", m, i, r) : m \in MealVals, i \in ItemsVals(S), r \in ReportedTotals}

\* null, a number, a string, an array: every property read yields undefined
NonObjectVals ==
  {Parsed(t, Undef, NoItems, Undef) : t \in {"null", "number", "string", "array"}}

-----------------------------------------------------------------------------
(* Collaborator text and its cleaning *)

\* three backticks
Fence == "FENCE"

IsWs(c) == c \in {" ", "\n"}

RECURSIVE DropWs(_)
\* the text after its leading whitespace
DropWs(s) == IF s # <<>> /\ IsWs(Head(s)) THEN DropWs(Tail(s)) ELSE s

RECURSIVE DropTrailingWs(_)
DropTrailingWs(s) ==
  IF s # <<>> /\ IsWs(s[Len(s)]) THEN DropTrailingWs(SubSeq(s, 1, Len(s) - 1)) ELSE s

\* a trim that raises on a text holding nothing but whitespace
TrimNonBlank(s) ==
  IF DropWs(s) = <<>> THEN <<"TypeError">> ELSE DropTrailingWs(DropWs(s))

\* String.prototype.trim
Trim(s) == DropTrailingWs(DropWs(s))

\* String.prototype.startsWith
StartsWith(s, p) == Len(s) >= Len(p) /\ SubSeq(s, 1, Len(p)) = p

\* replace(/^<p>\s*/, '')
StripOpening(s, p) ==
  IF StartsWith(s, p) THEN DropWs(SubSeq(s, Len(p) + 1, Len(s))) ELSE s

\* replace(/\s*FENCE$/, '')
StripClosingFence(s) ==
  IF s # <<>> /\ s[Len(s)] = Fence
  THEN DropTrailingWs(SubSeq(s, 1, Len(s) - 1))
  ELSE s

\* the cleaning of parseAndEstimateNutrition: trim, then strip a code fence
CleanPrimary(s) ==
  LET c == Trim(s)
  IN  IF StartsWith(c, <<Fence, "json">>)
      THEN StripClosingFence(StripOpening(c, <<Fence, "json">>))
      ELSE IF StartsWith(c, <<Fence>>)
           THEN StripClosingFence(StripOpening(c, <<Fence>>))
           ELSE c

RECURSIVE RemoveCommaBefore(_, _)
\* replace(/,\s*}/g, '}') and replace(/,\s*]/g, ']')
RemoveCommaBefore(s, close) ==
  IF s = <<>> THEN <<>>
  ELSE LET r == DropWs(Tail(s))
       IN  IF Head(s) = "," /\ r # <<>> /\ Head(r) = close
           THEN <<close>> \o RemoveCommaBefore(Tail(r), close)
           ELSE <<Head(s)>> \o RemoveCommaBefore(Tail(s), close)

\* replace(/\n/g, ' ')
NewlinesToSpaces(s) == [i \in 1..Len(s) |-> IF s[i] = "\n" THEN " " ELSE s[i]]

RECURSIVE CollapseWs(_)
\* replace(/\s+/g, ' ')
CollapseWs(s) ==
  IF s = <<>> THEN <<>>
  ELSE IF IsWs(Head(s))
       THEN <<" ">> \o CollapseWs(DropWs(s))
       ELSE <<Head(s)>> \o CollapseWs(Tail(s))

\* the cleaning of generateItemSpecificInsights
CleanInsight(s) ==
  Trim(CollapseWs(NewlinesToSpaces(
         RemoveCommaBefore(RemoveCommaBefore(CleanPrimary(s), "}"), "]"))))

\* the text of a JSON value: an object's braces around its members, an array's
\* brackets around its elements, any other value as one token
JsonText(v) ==
  CASE v.t = "object" -> <<"{", "M", "}">>
    [] v.t = "array" -> <<"[", "E", "]">>
    [] OTHER -> <<"A">>

\* JSON.parse accepts the text (whitespace around the tokens is insignificant)
Parses(s, v) == v.t # "none" /\ SelectSeq(s, LAMBDA c : ~IsWs(c)) = JsonText(v)

Fenced(tag, body) == <<Fence>> \o tag \o <<"\n">> \o body \o <<"\n", Fence>>

\* the same text with a comma before the closing brace or bracket
WithTrailingComma(body) ==
  SubSeq(body, 1, Len(body) - 1) \o <<",", "\n", body[Len(body)]>>

\* the ways the collaborator words a reply that carries the JSON value v
TextsOf(v) ==
  {JsonText(v),
   <<" ">> \o JsonText(v) \o <<"\n">>,
   Fenced(<<"json">>, JsonText(v)),
   Fenced(<<>>, JsonText(v)),
   <<"x", " ">> \o JsonText(v)}
  \cup (IF v.t \in {"object", "array"}
        THEN {Fenced(<<"json">>, WithTrailingComma(JsonText(v)))}
        ELSE {})

-----------------------------------------------------------------------------
(* BrandService *)

Brand(name, icon, color) == [name |-> name, icon |-> icon, color |-> color]

\* no brand: null from detectBrand, undefined on the item
NoBrand == Brand("", "", "")

\* the brand dictionary, in insertion order (icons by their names)
brandMap ==
  << [key |-> "starbucks",   info |-> Brand("Starbucks", "coffee", "#00704A")],
     [key |-> "pret",        info |-> Brand("Pret A Manger", "croissant", "#E31837")],
     [key |-> "costa",       info |-> Brand("Costa Coffee", "coffee", "#4A4A4A")],
     [key |-> "nero",        info |-> Brand("Caffe Nero", "coffee", "#1E3A8A")],
     [key |-> "mcdonalds",   info |-> Brand("McDonald's", "fries", "#FFC72C")],
     [key |-> "kfc",         info |-> Brand("KFC", "poultry leg", "#E4002B")],
     [key |-> "burger king", info |-> Brand("Burger King", "hamburger", "#FF6600")],
     [key |-> "subway",      info |-> Brand("Subway", "sandwich", "#00A651")],
     [key |-> "pizza hut",   info |-> Brand("Pizza Hut", "pizza", "#FF6600")],
     [key |-> "dominos",     info |-> Brand("Domino's", "pizza", "#E31837")],
     [key |-> "tesco",       info |-> Brand("Tesco", "trolley", "#00539F")],
     [key |-> "sainsburys",  info |-> Brand("Sainsbury's", "trolley", "#FF6900")],
     [key |-> "asda",        info |-> Brand("ASDA", "trolley", "#68A51B")],
     [key |-> "morrisons",   info |-> Brand("Morrisons", "trolley", "#00539F")],
     [key |-> "waitrose",    info |-> Brand("Waitrose", "trolley", "#4A4A4A")],
     [key |-> "cadbury",     info |-> Brand("Cadbury", "chocolate", "#4A4A4A")],
     [key |-> "mars",        info |-> Brand("Mars", "chocolate", "#E31837")],
     [key |-> "snickers",    info |-> Brand("Snickers", "chocolate", "#4A4A4A")],
     [key |-> "kit kat",     info |-> Brand("Kit Kat", "chocolate", "#E31837")],
     [key |-> "coca cola",   info |-> Brand("Coca Cola", "cup with straw", "#E31837")],
     [key |-> "pepsi",       info |-> Brand("Pepsi", "cup with straw", "#004B93")] >>

LowerChar(c) ==
  CASE c = "A" -> "a" [] c = "B" -> "b" [] c = "C" -> "c" [] c = "D" -> "d"
    [] c = "E" -> "e" [] c = "F" -> "f" [] c = "G" -> "g" [] c = "H" -> "h"
    [] c = "I" -> "i" [] c = "J" -> "j" [] c = "K" -> "k" [] c = "L" -> "l"
    [] c = "M" -> "m" [] c = "N" -> "n" [] c = "O" -> "o" [] c = "P" -> "p"
    [] c = "Q" -> "q" [] c = "R" -> "r" [] c = "S" -> "s" [] c = "T" -> "t"
    [] c = "U" -> "u" [] c = "V" -> "v" [] c = "W" -> "w" [] c = "X" -> "x"
    [] c = "Y" -> "y" [] c = "Z" -> "z" [] OTHER -> c

RECURSIVE ToLowerCase(_)
\* String.prototype.toLowerCase
ToLowerCase(str) ==
  IF str = "" THEN ""
  ELSE LowerChar(SubSeq(str, 1, 1)) \o ToLowerCase(SubSeq(str, 2, Len(str)))

\* String.prototype.includes
Includes(str, sub) ==
  \E i \in 1..(Len(str) - Len(sub) + 1) : SubSeq(str, i, i + Len(sub) - 1) = sub

\* this.brandMap.get(key) || null
BrandOfKey(key) ==
  IF \E i \in 1..Len(brandMap) : brandMap[i].key = key
  THEN brandMap[CHOOSE i \in 1..Len(brandMap) : brandMap[i].key = key].info
  ELSE NoBrand

\* the aliases consulted before the dictionary keys
DetectAliasFirst(context) ==
  LET lowerContext == ToLowerCase(context)
      hits == {i \in 1..Len(brandMap) : Includes(lowerContext, brandMap[i].key)}
  IN  IF Includes(lowerContext, "mcdonald") \/ Includes(lowerContext, "mcd")
      THEN BrandOfKey("mcdonalds")
      ELSE IF Includes(lowerContext, "burger king") \/ Includes(lowerContext, "bk")
           THEN BrandOfKey("burger king")
      ELSE IF Includes(lowerContext, "pizza hut") \/ Includes(lowerContext, "ph")
           THEN BrandOfKey("pizza hut")
      ELSE IF hits # {}
           THEN brandMap[CHOOSE i \in hits : \A j \in hits : i <= j].info
      ELSE NoBrand

\* detectBrand on a string that is not empty
DetectInString(context) ==
  LET lowerContext == ToLowerCase(context)
      hits == {i \in 1..Len(brandMap) : Includes(lowerContext, brandMap[i].key)}
  IN  IF hits # {}
      THEN brandMap[CHOOSE i \in hits : \A j \in hits : i <= j].info
      ELSE IF Includes(lowerContext, "mcdonald") \/ Includes(lowerContext, "mcd")
           THEN BrandOfKey("mcdonalds")
      ELSE IF Includes(lowerContext, "burger king") \/ Includes(lowerContext, "bk")
           THEN BrandOfKey("burger king")
      ELSE IF Includes(lowerContext, "pizza hut") \/ Includes(lowerContext, "ph")
           THEN BrandOfKey("pizza hut")
      ELSE NoBrand

\* detectBrand without its first line: toLowerCase is read of null
DetectBrandUnguarded(context) ==
  IF context.t # "string"
  THEN [throws |-> TRUE, brand |-> NoBrand]
  ELSE [throws |-> FALSE, brand |-> DetectInString(context.s)]

\* detectBrand(context): a TypeError when context is truthy and no string
detectBrand(context) ==
  IF ~Truthy(context) THEN [throws |-> FALSE, brand |-> NoBrand]
  ELSE IF context.t # "string" THEN [throws |-> TRUE, brand |-> NoBrand]
  ELSE [throws |-> FALSE, brand |-> DetectInString(context.s)]

-----------------------------------------------------------------------------
(* InsightsService *)

\* one element of the array the collaborator returns for an item
Insight(type, title, message, icon) ==
  [t |-> "object", type |-> type, title |-> title, message |-> message, icon |-> icon]

NullInsight == [t |-> "null", type |-> Undef, title |-> Undef, message |-> Undef,
                icon |-> Undef]

CaffeineInsight ==
  Insight(Str("info"), Str("Caffeine"), Str("Moderate your intake"), Str("bulb"))

AlcoholInsight ==
  Insight(Str("warning"), Str("Alcohol"), Str("High alcohol intake"), Str("beer"))

\* no title
UntitledInsight ==
  Insight(Str("info"), Undef, Str("Processed food"), Str("bulb"))

\* a reply of the collaborator: the call throws, or returns content
Reply(kind, text, json) == [kind |-> kind, text |-> text, json |-> json]

InsightArray(a) == [t |-> "array", a |-> a]

NoJson == [t |-> "none", a |-> <<>>]

\* insights.filter(insight => insight.type && insight.title && insight.message && insight.icon)
KeepInsight(e) ==
  Truthy(e.type) /\ Truthy(e.title) /\ Truthy(e.message) /\ Truthy(e.icon)

\* generateItemSpecificInsights: every failure yields []
InsightsOf(reply) ==
  IF reply.kind # "text" THEN <<>>
  ELSE IF ~Parses(CleanInsight(reply.text), reply.json) THEN <<>>
  ELSE IF reply.json.t # "array" THEN <<>>
  ELSE IF \E i \in 1..Len(reply.json.a) : reply.json.a[i].t = "null" THEN <<>>
  ELSE SelectSeq(reply.json.a, KeepInsight)

\* the spread written last: { insights, brand: brand || undefined, ...item }
SpreadLast(item, insights, brand) ==
  [t |-> item.t, name |-> item.name, estimatedCalories |-> item.estimatedCalories,
   context |-> item.context, quantity |-> item.quantity, unit |-> item.unit,
   description |-> item.description,
   insights |-> IF item.insights # <<>> THEN item.insights ELSE insights,
   brand |-> IF item.brand.name # "" THEN item.brand ELSE brand]

\* the object built without the item's description
WithoutDescription(item, insights, brand) ==
  [t |-> item.t, name |-> item.name, estimatedCalories |-> item.estimatedCalories,
   context |-> item.context, quantity |-> item.quantity, unit |-> item.unit,
   description |-> Undef, insights |-> insights, brand |-> brand]

\* { ...item, insights, brand: brand || undefined }
Annotated(item, insights, brand) ==
  [t |-> item.t, name |-> item.name, estimatedCalories |-> item.estimatedCalories,
   context |-> item.context, quantity |-> item.quantity, unit |-> item.unit,
   description |-> item.description, insights |-> insights, brand |-> brand]

\* the state of one callback of items.map
Call(st, value) == [st |-> st, value |-> value]

PendingCall(item) == Call("pending", Annotated(item, <<>>, NoBrand))

\* the callback resumes with the reply: insights, then detectBrand, then the spread
SettledCall(item, reply) ==
  IF detectBrand(item.context).throws
  THEN Call("rejected", Annotated(item, <<>>, NoBrand))
  ELSE Call("fulfilled",
            Annotated(item, InsightsOf(reply), detectBrand(item.context).brand))

-----------------------------------------------------------------------------
(* OpenAIService.parseAndEstimateNutrition *)

\* an error and the statement that threw it
Err(error, at) == [error |-> error, at |-> at]

NoErr == Err("", "")

ParseMsg == "Failed to parse nutrition data - invalid JSON response"

EstimateMsg == "Failed to estimate nutrition from transcribed text"

\* the catch block: which error reaches the caller
Rethrow(e) == IF e.error = "SyntaxError" THEN ParseMsg ELSE EstimateMsg

\* no check at all
NeverInvalid(parsed) == FALSE

\* the check with an empty array taken for a missing one
InvalidStructureOrEmpty(parsed) ==
  \/ ~Truthy(parsed.meal)
  \/ parsed.items.t # "array"
  \/ Len(parsed.items.a) = 0

\* !parsedResponse.meal || !parsedResponse.items || !Array.isArray(parsedResponse.items)
InvalidStructure(parsed) ==
  \/ ~Truthy(parsed.meal)
  \/ parsed.items.t \in {"undefined", "null"}
  \/ parsed.items.t # "array"

RECURSIVE Reduce(_, _)
\* items.reduce((sum, item) => sum + item.estimatedCalories, sum)
Reduce(items, sum) ==
  IF items = <<>> THEN sum
  ELSE Reduce(Tail(items), JsAdd(sum, Head(items).estimatedCalories))

\* reading a property of null throws
ReduceThrows(items) == \E i \in 1..Len(items) : items[i].t = "null"

\* from the reply to the fan-out: the error caught, JSON.parse's value, the total
Extraction(e, parsed, total) ==
  [caught |-> e, parsed |-> parsed, total |-> total]

Extract(reply) ==
  IF reply.kind = "throws"
  THEN Extraction(Err("APIError", "create"), NoParsed, Undef)
  ELSE IF reply.kind # "text"
  THEN Extraction(Err("No response from GPT-4o", "content"), NoParsed, Undef)
  ELSE IF ~Parses(CleanPrimary(reply.text), reply.json)
  THEN Extraction(Err("SyntaxError", "parse"), NoParsed, Undef)
  ELSE IF reply.json.t = "null"
  THEN Extraction(Err("TypeError", "validate"), reply.json, Undef)
  ELSE IF InvalidStructure(reply.json)
  THEN Extraction(Err("Invalid response structure from GPT-4o", "validate"),
                  reply.json, Undef)
  ELSE IF ReduceThrows(reply.json.items.a)
  THEN Extraction(Err("TypeError", "reduce"), reply.json, Undef)
  ELSE Extraction(NoErr, reply.json, Reduce(reply.json.items.a, Num(0)))

NoReply == Reply("none", <<>>, NoParsed)

\* the VoiceLogResponse
Log(meal, items, total) ==
  [meal |-> meal, items |-> items, totalEstimatedCalories |-> total]

NoLog == Log(Undef, <<>>, Undef)

\* a defect of the parsed value and, for a malformed item, its index
Defect(kind, index) == [kind |-> kind, index |-> index]

NoDefect == Defect("", 0)

\* what the caller saw of a failed request
Failure(msg, e, defect) == [thrown |-> msg, caught |-> e, defect |-> defect]

NoFailure == Failure("", NoErr, NoDefect)

\* the replies of the primary call: it throws, returns no content, or text
PrimaryReplySet ==
  {Reply("throws", <<>>, NoParsed), Reply("null", <<>>, NoParsed),
   Reply("empty", <<>>, NoParsed), Reply("text", <<"x">>, NoParsed)}
  \cup {Reply("text", txt, v) : <<txt, v>> \in
          UNION {{<<x, w>> : x \in TextsOf(w)} :
                   w \in ObjectVals(ItemCandidates) \cup NonObjectVals}}

\* the replies of a per-item insight call
InsightReplySet ==
  {Reply("throws", <<>>, NoJson),
   Reply("text", <<"x">>, NoJson),
   Reply("text", Fenced(<<"json">>, <<"[", "E", "]">>),
         InsightArray(<<CaffeineInsight, UntitledInsight>>))}

PipeInit ==
  /\ pc = "idle"
  /\ response = NoReply
  /\ parsedResponse = NoParsed
  /\ totalCalories = Undef
  /\ calls = <<>>
  /\ result = NoLog
  /\ caught = NoErr
  /\ thrown = ""
  /\ prev = NoFailure

\* the caller invokes parseAndEstimateNutrition; the primary call is issued
Request ==
  /\ pc = "idle"
  /\ pc' = "awaiting"
  /\ UNCHANGED <<response, parsedResponse, totalCalories, calls, result, caught,
                 thrown, prev>>

\* the primary call settles
PrimaryReplies ==
  /\ pc = "awaiting"
  /\ \E r \in PrimaryReplySet : response' = r
  /\ pc' = "responded"
  /\ UNCHANGED <<parsedResponse, totalCalories, calls, result, caught, thrown, prev>>

\* lines 189-216: clean, parse, validate, total, and issue every insight call
Process ==
  /\ pc = "responded"
  /\ LET o == Extract(response)
     IN  /\ parsedResponse' = o.parsed
         /\ totalCalories' = o.total
         /\ caught' = o.caught
         /\ IF o.caught = NoErr
            THEN /\ pc' = "insights"
                 /\ thrown' = ""
                 /\ calls' = [i \in 1..Len(o.parsed.items.a) |->
                                PendingCall(o.parsed.items.a[i])]
            ELSE /\ pc' = "failed"
                 /\ thrown' = Rethrow(o.caught)
                 /\ calls' = <<>>
  /\ response' = NoReply
  /\ UNCHANGED <<result, prev>>

\* one per-item call settles and its callback runs to the end
InsightSettles ==
  /\ pc \in {"insights", "failed"}
  /\ \E i \in 1..Len(calls) : \E r \in InsightReplySet :
       /\ calls[i].st = "pending"
       /\ calls' = [calls EXCEPT ![i] = SettledCall(parsedResponse.items.a[i], r)]
  /\ UNCHANGED <<pc, response, parsedResponse, totalCalories, result, caught,
                 thrown, prev>>

\* Promise.all rejects with the first rejection; the catch block rethrows
InsightsReject ==
  /\ pc = "insights"
  /\ \E i \in 1..Len(calls) : calls[i].st = "rejected"
  /\ pc' = "failed"
  /\ caught' = Err("TypeError", "insights")
  /\ thrown' = Rethrow(Err("TypeError", "insights"))
  /\ UNCHANGED <<response, parsedResponse, totalCalories, calls, result, prev>>

\* Promise.all fulfils; lines 218-222
Return ==
  /\ pc = "insights"
  /\ \A i \in 1..Len(calls) : calls[i].st = "fulfilled"
  /\ result' = Log(parsedResponse.meal, [i \in 1..Len(calls) |-> calls[i].value],
                   totalCalories)
  /\ pc' = "returned"
  /\ UNCHANGED <<response, parsedResponse, totalCalories, calls, caught, thrown, prev>>

\* the defect of the parsed value, as the specification's validator names it
DefectOf(parsed) ==
  IF parsed.t = "none" THEN NoDefect
  ELSE IF parsed.t # "object" THEN Defect("not an object", 0)
  ELSE IF parsed.items.t # "array" THEN Defect("missing items array", 0)
  ELSE IF \E i \in 1..Len(parsed.items.a) : ~WellFormedItem(parsed.items.a[i])
  THEN Defect("malformed item",
              CHOOSE i \in 1..Len(parsed.items.a) :
                /\ ~WellFormedItem(parsed.items.a[i])
                /\ \A j \in 1..(i - 1) : WellFormedItem(parsed.items.a[j]))
  ELSE NoDefect

\* the request is over; the service takes the next one
Reset ==
  /\ pc' = "idle"
  /\ response' = NoReply
  /\ parsedResponse' = NoParsed
  /\ totalCalories' = Undef
  /\ calls' = <<>>
  /\ result' = NoLog
  /\ caught' = NoErr
  /\ thrown' = ""

NextRequest ==
  /\ pc \in {"returned", "failed"}
  /\ Reset
  /\ UNCHANGED prev

\* the same, the caller keeping the failure it last saw
NextRequestAfterFailure ==
  /\ pc = "failed"
  /\ Reset
  /\ prev' = Failure(thrown, caught, DefectOf(parsedResponse))

SanIdle == sanIn = <<>> /\ sanPath = "" /\ sanOut = <<>>

-----------------------------------------------------------------------------
(* The response cleaning, applied to arbitrary collaborator text *)

Alphabet == {Fence, "json", " ", "\n", ",", "}", "]", "x"}

\* the cleaning steps of the service named by path
Clean(path, s) == IF path = "primary" THEN CleanPrimary(s) ELSE CleanInsight(s)

SanInit ==
  /\ sanIn \in SeqsUpTo(Alphabet, MaxLen)
  /\ sanPath = ""
  /\ sanOut = <<>>

\* a service cleans the collaborator's text
CleanOnce ==
  /\ sanPath = ""
  /\ \E path \in {"primary", "insight"} :
       /\ sanPath' = path
       /\ sanOut' = <<Clean(path, sanIn)>>
  /\ UNCHANGED sanIn

\* the cleaned text is cleaned again
CleanAgain ==
  /\ Len(sanOut) = 1
  /\ sanOut' = Append(sanOut, Clean(sanPath, sanOut[1]))
  /\ UNCHANGED <<sanIn, sanPath>>

-----------------------------------------------------------------------------
(* The demo text-logging entry points: the Netlify log-text function and   *)
(* MockApiService.processTextLog.  Request texts are strings.              *)

Vocabulary ==
  {"coffee", "Coffee", "lunch", "sandwich", "pizza", "beer", "lager", "burger",
   "salad", "toast", " "}

ScenarioAText == "I had 5 cups of coffee and 3 pints of lager"

RECURSIVE Join(_)
\* the words, separated by spaces
Join(ws) ==
  IF ws = <<>> THEN ""
  ELSE IF Len(ws) = 1 THEN ws[1]
  ELSE ws[1] \o " " \o Join(Tail(ws))

\* the text property of the request body
TextVals ==
  {Undef, Num(5), Str(ScenarioAText)}
  \cup {Str(Join(ws)) : ws \in SeqsUpTo(Vocabulary, MaxWords)}

\* text.trim() is the empty string
Blank(str) == \A i \in 1..Len(str) : SubSeq(str, i, i) = " "

\* text.toLowerCase().includes(kw)
Mentions(str, kw) == Includes(ToLowerCase(str), kw)

\* text.substring(0, 50)
Substring50(str) == IF Len(str) > 50 THEN SubSeq(str, 1, 50) ELSE str

DemoItem(name, cal, unit, desc) ==
  Item(Str(name), Num(cal), Str("from text input"), Num(1), Str(unit), Str(desc))

\* the generic item pushed when no keyword matched
GenericItem(str) ==
  DemoItem("Food Item", 200, "serving", "Parsed from: " \o Substring50(str) \o "...")

\* items.push(item) when the condition holds
PushIf(cond, items, item) == IF cond THEN Append(items, item) ELSE items

\* the items both entry points collect: coffee, sandwich, pizza, beer
CommonItems(str) ==
  PushIf(Mentions(str, "beer") \/ Mentions(str, "lager"),
    PushIf(Mentions(str, "pizza"),
      PushIf(Mentions(str, "sandwich") \/ Mentions(str, "lunch"),
        PushIf(Mentions(str, "coffee"), <<>>,
               DemoItem("Coffee", 5, "cup", "Coffee from text input")),
        DemoItem("Sandwich", 300, "serving", "Lunch from text input")),
      DemoItem("Pizza", 400, "slice", "Pizza slice from text input")),
    DemoItem("Beer", 150, "pint", "Beer from text input"))

\* the fallback left out
NoFallback(items, str) == items

\* if (items.length === 0) items.push(generic)
OrGeneric(items, str) == IF Len(items) = 0 THEN <<GenericItem(str)>> ELSE items

\* the items of the Netlify function: the common ones, burger, salad
HandlerItems(str) ==
  OrGeneric(
    PushIf(Mentions(str, "salad"),
      PushIf(Mentions(str, "burger"), CommonItems(str),
             DemoItem("Burger", 500, "serving", "Burger from text input")),
      DemoItem("Salad", 100, "serving", "Salad from text input")),
    str)

\* the items of MockApiService.processTextLog
MockItems(str) == OrGeneric(CommonItems(str), str)

\* a response of an entry point
DemoResponse(by, status, log) == [by |-> by, status |-> status, log |-> log]

NoDemoResponse == DemoResponse("", 0, NoLog)

\* exports.handler of the log-text function, for a POST
Handler(text) ==
  IF ~Truthy(text) \/ text.t # "string" \/ Blank(text.s)
  THEN DemoResponse("handler", 400, NoLog)
  ELSE DemoResponse("handler", 200,
         Log(Str("General"), HandlerItems(text.s),
             Reduce(HandlerItems(text.s), Num(0))))

\* MockApiService.processTextLog(text: string)
ProcessTextLog(text) ==
  DemoResponse("mock", 200,
    Log(Str("General"), MockItems(text.s), Reduce(MockItems(text.s), Num(0))))

DemoIdle == demoText = Undef /\ demoOut = NoDemoResponse

DemoInit ==
  /\ demoText \in TextVals
  /\ demoOut = NoDemoResponse

\* POST /.netlify/functions/log-text
HandlerLogText ==
  /\ demoOut = NoDemoResponse
  /\ demoOut' = Handler(demoText)
  /\ UNCHANGED demoText

\* mockApiService.processTextLog(text)
MockProcessTextLog ==
  /\ demoOut = NoDemoResponse
  /\ demoText.t = "string"
  /\ demoOut' = ProcessTextLog(demoText)
  /\ UNCHANGED demoText

-----------------------------------------------------------------------------
(* InsightsService.generateItemInsights, called with every array of items   *)
(* and every behaviour of the per-item collaborator calls                   *)

\* an item object as the collaborator returned it, with the insights and
\* brand properties it may carry of its own (none: [] and no brand)
Carrying(item, insights, brand) ==
  [t |-> item.t, name |-> item.name, estimatedCalories |-> item.estimatedCalories,
   context |-> item.context, quantity |-> item.quantity, unit |-> item.unit,
   description |-> item.description, insights |-> insights, brand |-> brand]

CarryingItem ==
  Carrying(CoffeeItem, <<AlcoholInsight>>, Brand("Acme", "star", "#123456"))

\* the elements of the argument
GiItemVals ==
  {CarryingItem, Carrying(LagerItem, <<>>, NoBrand),
   Carrying(NumCtxItem, <<>>, NoBrand)}

\* a type outside the three of HealthInsight, a title that is a number
DangerInsight ==
  Insight(Str("danger"), Num(5), Str("Very high in sugar"), Str("skull"))

NoInsightReply == Reply("none", <<>>, NoJson)

\* the behaviours of one per-item call: network error, no content, prose,
\* JSON that is no array, arrays (fenced, with a trailing comma)
GiReplyVals ==
  {Reply("throws", <<>>, NoJson),
   Reply("empty", <<>>, NoJson),
   Reply("text", <<"x", " ", "[", "E", "]">>, NoJson),
   Reply("text", <<"{", "M", "}">>, [t |-> "object", a |-> <<>>]),
   Reply("text", Fenced(<<"json">>, WithTrailingComma(<<"[", "E", "]">>)),
         InsightArray(<<CaffeineInsight, UntitledInsight>>)),
   Reply("text", <<"[", "E", "]">>, InsightArray(<<DangerInsight, AlcoholInsight>>)),
   Reply("text", <<"[", "E", "]">>, InsightArray(<<CaffeineInsight, NullInsight>>))}

\* the values in the opposite order
Reversed(cs) == [i \in 1..Len(cs) |-> cs[Len(cs) + 1 - i].value]

\* what Promise.all fulfils with: the callbacks' values, by position
PromiseAll(cs) == [i \in 1..Len(cs) |-> cs[i].value]

GiIdle ==
  /\ giItems = <<>> /\ giSt = "idle" /\ giCalls = <<>>
  /\ giReplies = <<>> /\ giOut = <<>>

GiInit ==
  /\ giItems \in SeqsUpTo(GiItemVals, MaxBatch)
  /\ giSt = "idle" /\ giCalls = <<>> /\ giReplies = <<>> /\ giOut = <<>>

\* generateItemInsights(items): items.map runs every callback up to its await
GiInvoke ==
  /\ giSt = "idle"
  /\ giSt' = "awaiting"
  /\ giCalls' = [i \in 1..Len(giItems) |-> PendingCall(giItems[i])]
  /\ giReplies' = [i \in 1..Len(giItems) |-> NoInsightReply]
  /\ UNCHANGED <<giItems, giOut>>

\* one per-item call settles and its callback runs to the end
GiSettles ==
  /\ giSt \in {"awaiting", "rejected"}
  /\ \E i \in 1..Len(giCalls) : \E r \in GiReplyVals :
       /\ giCalls[i].st = "pending"
       /\ giCalls' = [giCalls EXCEPT ![i] = SettledCall(giItems[i], r)]
       /\ giReplies' = [giReplies EXCEPT ![i] = r]
  /\ UNCHANGED <<giItems, giSt, giOut>>

\* Promise.all rejects with the first rejection
GiRejects ==
  /\ giSt = "awaiting"
  /\ \E i \in 1..Len(giCalls) : giCalls[i].st = "rejected"
  /\ giSt' = "rejected"
  /\ UNCHANGED <<giItems, giCalls, giReplies, giOut>>

\* Promise.all fulfils; return itemsWithInsights
GiResolves ==
  /\ giSt = "awaiting"
  /\ \A i \in 1..Len(giCalls) : giCalls[i].st = "fulfilled"
  /\ giSt' = "resolved"
  /\ giOut' = PromiseAll(giCalls)
  /\ UNCHANGED <<giItems, giCalls, giReplies>>

-----------------------------------------------------------------------------
(* BrandService.detectBrand, called with every context *)

ContextWords ==
  {"from", "lunch", "Pret", "STARBUCKS", "Costa", "mcd's", "McDonalds", "bk",
   "Burger King", "Murphy's", "Pizza Hut", "Tesco"}

ScenarioContext == "lunch from mcd's today"

\* the context property of an item
ContextVals ==
  {Undef, Null, Num(7), Str(ScenarioContext)}
  \cup {Str(Join(ws)) : ws \in SeqsUpTo(ContextWords, MaxWords)}

BrandIdle == brandCtx = Undef /\ brandOut = <<>>

BrandInit ==
  /\ brandCtx \in ContextVals
  /\ brandOut = <<>>

\* brandService.detectBrand(context)
DetectBrand ==
  /\ Len(brandOut) < MaxCalls
  /\ brandOut' = Append(brandOut, detectBrand(brandCtx))
  /\ UNCHANGED brandCtx

-----------------------------------------------------------------------------
(* The API server: POST /api/log/text and POST /api/log/voice.  The calls of *)
(* transcribeAudio and parseAndEstimateNutrition settle with any outcome    *)
(* these methods have.                                                      *)

\* a request: its route, the text property of its body, its uploaded file
HttpRequest(route, text, file) == [route |-> route, text |-> text, file |-> file]

\* requests of the text route (any body.text) and of the voice route
HttpRequests ==
  {HttpRequest("text", v, "none") : v \in TextVals \cup {Null}}
  \cup {HttpRequest("voice", Undef, f) :
          f \in {"none", "audio", "badType", "tooLarge"}}

\* res.status(statusCode).json({ error, message, statusCode }) or res.json(log)
HttpResponse(status, error, message) ==
  [status |-> status, error |-> error, message |-> message]

NoHttpResponse == HttpResponse(0, "", "")

TranscribeMsg == "Failed to transcribe audio file"

SubstringTypeError == "Cannot read properties of undefined (reading 'substring')"

\* what openaiService.transcribeAudio settles with: an error, or the text
\* property of Whisper's answer
TranscriptionOutcomes ==
  {[ok |-> FALSE, text |-> Undef]}
  \cup {[ok |-> TRUE, text |-> v] : v \in {Undef, Str(""), Str(" "), Str("coffee")}}

NoTranscription == [ok |-> FALSE, text |-> Null]

\* the errors of the OpenAI client: bad API key, service unreachable
ApiErrors == {"AuthenticationError", "APIConnectionError"}

\* the catch block of transcribeAudio: one message for every error
TranscribeRethrow(e) == TranscribeMsg

\* what openaiService.parseAndEstimateNutrition settles with: a log (no
\* error), or the error its catch block caught
NutritionOutcomes ==
  {NoErr, Err("SyntaxError", "parse"),
   Err("Invalid response structure from GPT-4o", "validate")}
  \cup {Err(e, "create") : e \in ApiErrors}

\* the errors of the upload middleware
FileTypeMsg == "Invalid file type. Only audio files are allowed."

FileSizeMsg == "File too large"

\* fileFilter and limits of multer: the error handed to next(), "" when the
\* upload is accepted (or there is none)
UploadError(file) ==
  CASE file = "badType" -> FileTypeMsg
    [] file = "tooLarge" -> FileSizeMsg
    [] OTHER -> ""

\* the middleware and routes of app, in the order they are registered
AppStack ==
  <<"helmet", "cors", "json", "urlencoded", "errorHandler", "GET /health",
    "POST /api/logs/client", "GET /api/logs/errors", "POST /api/log/text",
    "POST /api/log/voice", "notFound">>

\* the position of a layer in the stack
LayerOf(name) == CHOOSE i \in 1..Len(AppStack) : AppStack[i] = name

\* the error handling middleware
ErrorHandler(msg) ==
  IF msg = FileSizeMsg
  THEN HttpResponse(400, "File too large", "Audio file exceeds maximum size limit")
  ELSE IF msg = FileTypeMsg
  THEN HttpResponse(400, "Invalid file type", msg)
  ELSE HttpResponse(500, "Internal server error", "An unexpected error occurred")

\* Express's final handler: status 500 and a body that is no ApiError
FinalHandler(msg) == HttpResponse(500, "", "")

\* next(err) called by a layer: the first error handler registered after it
\* answers, Express's final handler when there is none
NextWithError(from, msg) ==
  IF \E i \in (LayerOf(from) + 1)..Len(AppStack) : AppStack[i] = "errorHandler"
  THEN ErrorHandler(msg)
  ELSE FinalHandler(msg)

\* the check without the trim
NoTextUntrimmed(text) == ~Truthy(text) \/ text.t # "string"

\* !text || typeof text !== 'string' || !text.trim()
NoText(text) == ~Truthy(text) \/ text.t # "string" \/ Blank(text.s)

\* the catch block of the text route
TextErrorResponse(msg) ==
  IF Includes(msg, "parse") \/ Includes(msg, "nutrition")
  THEN HttpResponse(422, "Processing failed",
                    "Failed to parse food information from the text.")
  ELSE IF Includes(msg, "API key") \/ Includes(msg, "authentication")
  THEN HttpResponse(500, "Processing failed",
                    "Service configuration error. Please contact support.")
  ELSE HttpResponse(500, "Processing failed",
                    "An unexpected error occurred while processing the text")

\* the catch block of the voice route
VoiceErrorResponse(msg) ==
  IF Includes(msg, "transcribe")
  THEN HttpResponse(422, "Processing failed",
         "Failed to transcribe audio file. Please ensure the audio is clear and in a supported format.")
  ELSE IF Includes(msg, "parse") \/ Includes(msg, "nutrition")
  THEN HttpResponse(422, "Processing failed",
                    "Failed to parse food information from the transcribed text.")
  ELSE IF Includes(msg, "API key") \/ Includes(msg, "authentication")
  THEN HttpResponse(500, "Processing failed",
                    "Service configuration error. Please contact support.")
  ELSE HttpResponse(500, "Processing failed",
                    "An unexpected error occurred while processing the audio file")

HttpIdle ==
  /\ httpReq = HttpRequest("", Undef, "none") /\ httpPc = "idle"
  /\ transcriptionResult = NoTranscription
  /\ httpCalls = <<>> /\ httpCaught = NoErr /\ httpRes = NoHttpResponse

HttpInit ==
  /\ httpReq \in HttpRequests
  /\ httpPc = "idle"
  /\ transcriptionResult = NoTranscription
  /\ httpCalls = <<>>
  /\ httpCaught = NoErr
  /\ httpRes = NoHttpResponse

\* POST /api/log/text, up to the response or the await
PostLogText ==
  /\ httpPc = "idle" /\ httpReq.route = "text"
  /\ IF NoText(httpReq.text)
     THEN /\ httpRes' = HttpResponse(400, "No text provided",
                           "Please provide text describing the food you ate")
          /\ httpPc' = "done"
          /\ UNCHANGED httpCalls
     ELSE /\ httpCalls' = Append(httpCalls, httpReq.text)
          /\ httpPc' = "parsing"
          /\ UNCHANGED httpRes
  /\ UNCHANGED <<httpReq, transcriptionResult, httpCaught>>

\* upload.single('audio') of POST /api/log/voice rejects the upload
UploadRejects ==
  /\ httpPc = "idle" /\ httpReq.route = "voice"
  /\ UploadError(httpReq.file) # ""
  /\ httpRes' = NextWithError("POST /api/log/voice", UploadError(httpReq.file))
  /\ httpPc' = "done"
  /\ UNCHANGED <<httpReq, transcriptionResult, httpCalls, httpCaught>>

\* POST /api/log/voice, up to the response or the first await
PostLogVoice ==
  /\ httpPc = "idle" /\ httpReq.route = "voice"
  /\ UploadError(httpReq.file) = ""
  /\ IF httpReq.file = "none"
     THEN /\ httpRes' = HttpResponse(400, "No audio file provided",
                           "Please provide an audio file in the request")
          /\ httpPc' = "done"
     ELSE /\ httpPc' = "transcribing"
          /\ UNCHANGED httpRes
  /\ UNCHANGED <<httpReq, transcriptionResult, httpCalls, httpCaught>>

\* transcribeAudio settles; the voice route goes on to its second await
TranscriptionSettles ==
  /\ httpPc = "transcribing"
  /\ \E o \in TranscriptionOutcomes :
       /\ transcriptionResult' = o
       /\ IF ~o.ok
          THEN /\ \E e \in ApiErrors :
                    /\ httpCaught' = Err(e, "transcribe")
                    /\ httpRes' = VoiceErrorResponse(TranscribeRethrow(e))
               /\ httpPc' = "done"
               /\ UNCHANGED httpCalls
          ELSE IF o.text.t # "string"
          THEN /\ httpRes' = VoiceErrorResponse(SubstringTypeError)
               /\ httpPc' = "done"
               /\ UNCHANGED <<httpCalls, httpCaught>>
          ELSE /\ httpCalls' = Append(httpCalls, o.text)
               /\ httpPc' = "parsing"
               /\ UNCHANGED <<httpRes, httpCaught>>
  /\ UNCHANGED httpReq

\* parseAndEstimateNutrition settles; the route answers
NutritionSettles ==
  /\ httpPc = "parsing"
  /\ \E e \in NutritionOutcomes :
       /\ httpCaught' = e
       /\ httpRes' = IF e = NoErr THEN HttpResponse(200, "", "")
                     ELSE IF httpReq.route = "text"
                          THEN TextErrorResponse(Rethrow(e))
                          ELSE VoiceErrorResponse(Rethrow(e))
  /\ httpPc' = "done"
  /\ UNCHANGED <<httpReq, transcriptionResult, httpCalls>>

-----------------------------------------------------------------------------
(* The web client: FoodLogInterface, App and the client ErrorLogger *)

\* what the user types into the text area
ClientTexts == {"", " ", "coffee"}

NoToast == [kind |-> "none", count |-> 0]

\* toast.success(`... ${n} food items!`)
SuccessToast(n) == [kind |-> "success", count |-> n]

\* toast.error(...)
ErrorToast == [kind |-> "error", count |-> 0]

\* the body of a successful answer
ResponseData(items) == [ok |-> TRUE, items |-> items]

NoData == [ok |-> FALSE, items |-> <<>>]

\* how a fetch of the client ends: the promise rejects, the answer is not ok,
\* or the answer is ok and carries items
FetchOutcomes(itemSeqs) ==
  {[kind |-> "networkError", data |-> NoData], [kind |-> "httpError", data |-> NoData]}
    \cup {[kind |-> "ok", data |-> ResponseData(a)] : a \in itemSeqs}

\* items arrays the text endpoint answers with
TextItemSeqs == {<<>>, <<CoffeeItem>>, <<CoffeeItem, LagerItem>>}

\* items arrays the voice endpoint answers with
VoiceItemSeqs == {<<LagerItem>>}

\* const totalCalories = foodEntries.reduce(...)
AppTotalCalories == Reduce(foodEntries, Num(0))

\* ErrorLogger.maxLogs
maxLogs == 100

\* the ErrorLog built by log()
ErrorLog(id, level, component) ==
  [timestamp |-> id, level |-> level, component |-> component]

\* this.logs.push(errorLog), then the slice that keeps the last maxLogs
Pushed(buffer, errorLog) ==
  LET all == Append(buffer, errorLog)
  IN  IF Len(all) > maxLogs THEN SubSeq(all, Len(all) - maxLogs + 1, Len(all)) ELSE all

ClientIdle ==
  /\ textInput = "" /\ foodEntries = <<>> /\ isLoading = FALSE
  /\ toast = NoToast /\ data = NoData /\ textPc = "idle" /\ voicePc = "idle"
  /\ logs = <<>> /\ sends = <<>> /\ serverLogged = {} /\ nextId = 1

ClientInit == ClientIdle

\* onChange of the text area
SetTextInput ==
  /\ textPc = "idle"
  /\ \E v \in ClientTexts \ {textInput} : textInput' = v
  /\ UNCHANGED <<foodEntries, isLoading, toast, data, textPc, voicePc, logs,
                 sends, serverLogged, nextId>>

\* handleTextSubmit, up to the await of fetch
HandleTextSubmit ==
  /\ textPc = "idle"
  /\ textPc' = IF Blank(textInput) THEN "idle" ELSE "fetching"
  /\ UNCHANGED <<textInput, foodEntries, isLoading, toast, data, voicePc, logs,
                 sends, serverLogged, nextId>>

\* handleTextSubmit after the await: the answer of the text endpoint.  On an
\* ok answer it calls onVoiceLog(data), that is handleVoiceLog with the body
\* in place of a recording: FormData.append, given a file name and a value
\* that is not a Blob, throws a TypeError, so handleVoiceLog runs to its end
\* before returning (setIsLoading(true), the append, the catch that logs,
\* the finally) and the promise it returns, rejected, is dropped.
TextLogAnswers ==
  /\ textPc = "fetching"
  /\ \E o \in FetchOutcomes(TextItemSeqs) :
       IF o.kind # "ok"
       THEN /\ toast' = ErrorToast
            /\ UNCHANGED <<textInput, foodEntries, isLoading, data, logs, nextId>>
       ELSE /\ data' = o.data
            /\ nextId <= MaxLogged
            /\ logs' = Pushed(logs, ErrorLog(nextId, "error", "handleVoiceLog"))
            /\ nextId' = nextId + 1
            /\ isLoading' = FALSE
            /\ UNCHANGED foodEntries
            /\ toast' = SuccessToast(Len(o.data.items))
            /\ textInput' = ""
  /\ textPc' = "idle"
  /\ UNCHANGED <<voicePc, sends, serverLogged>>

\* mediaRecorder.onstop: handleVoiceLog with the recording, up to the await
HandleVoiceLog ==
  /\ voicePc = "idle" /\ ~isLoading
  /\ isLoading' = TRUE
  /\ voicePc' = "fetching"
  /\ UNCHANGED <<textInput, foodEntries, toast, data, textPc, logs, sends,
                 serverLogged, nextId>>

\* handleVoiceLog after the await, and the toast of onstop
VoiceLogAnswers ==
  /\ voicePc = "fetching"
  /\ nextId <= MaxLogged
  /\ \E o \in FetchOutcomes(VoiceItemSeqs) :
       IF o.kind = "ok"
       THEN /\ Len(foodEntries) + Len(o.data.items) <= MaxEntries
            /\ foodEntries' = foodEntries \o o.data.items
            /\ logs' = Pushed(logs, ErrorLog(nextId, "info", "handleVoiceLog"))
            /\ toast' = SuccessToast(Len(o.data.items))
       ELSE /\ logs' = Pushed(logs, ErrorLog(nextId, "error", "handleVoiceLog"))
            /\ toast' = ErrorToast
            /\ UNCHANGED foodEntries
  /\ nextId' = nextId + 1
  /\ isLoading' = FALSE
  /\ voicePc' = "idle"
  /\ UNCHANGED <<textInput, data, textPc, sends, serverLogged>>

\* ErrorLogger.log called by the window's error listeners
ErrorLoggerLog ==
  /\ nextId <= MaxLogged
  /\ logs' = Pushed(logs, ErrorLog(nextId, "error", "Global"))
  /\ nextId' = nextId + 1
  /\ UNCHANGED <<textInput, foodEntries, isLoading, toast, data, textPc,
                 voicePc, sends, serverLogged>>

\* the interval fires: sendLogsToServer, up to the await of fetch
SendLogsToServer ==
  /\ logs # <<>>
  /\ Len(sends) < MaxSends
  /\ sends' = Append(sends, logs)
  /\ UNCHANGED <<textInput, foodEntries, isLoading, toast, data, textPc,
                 voicePc, logs, serverLogged, nextId>>

\* how POST /api/logs/client ends for the client: the server logs the entries
\* and answers success, its catch answers 500, or the fetch rejects
SendOutcomes == {"success", "status500", "networkError"}

\* a send settles: sendLogsToServer after the await
SendSettles ==
  /\ \E i \in 1..Len(sends), o \in SendOutcomes :
       /\ serverLogged' = IF o = "success"
                          THEN serverLogged \cup {sends[i][k] : k \in 1..Len(sends[i])}
                          ELSE serverLogged
       /\ logs' = IF o = "networkError" THEN logs ELSE <<>>
       /\ sends' = SubSeq(sends, 1, i - 1) \o SubSeq(sends, i + 1, Len(sends))
  /\ UNCHANGED <<textInput, foodEntries, isLoading, toast, data, textPc,
                 voicePc, nextId>>

-----------------------------------------------------------------------------
(* Specifications *)

Init == PipeInit /\ SanIdle /\ DemoIdle /\ BrandIdle /\ GiIdle /\ HttpIdle
        /\ ClientIdle

Next ==
  \/ (Request /\ UNCHANGED notPipe)
  \/ (PrimaryReplies /\ UNCHANGED notPipe)
  \/ (Process /\ UNCHANGED notPipe)
  \/ (InsightSettles /\ UNCHANGED notPipe)
  \/ (InsightsReject /\ UNCHANGED notPipe)
  \/ (Return /\ UNCHANGED notPipe)
  \/ (NextRequest /\ UNCHANGED notPipe)

\* one service instance handling requests one after the other
Spec == Init /\ [][Next]_vars

NextServe ==
  \/ (Request /\ UNCHANGED notPipe)
  \/ (PrimaryReplies /\ UNCHANGED notPipe)
  \/ (Process /\ UNCHANGED notPipe)
  \/ (InsightSettles /\ UNCHANGED notPipe)
  \/ (InsightsReject /\ UNCHANGED notPipe)
  \/ (Return /\ UNCHANGED notPipe)
  \/ (NextRequestAfterFailure /\ UNCHANGED notPipe)

\* the same, the caller comparing each failure with the one before
SpecServe == Init /\ [][NextServe]_vars

InitSan == PipeInit /\ SanInit /\ DemoIdle /\ BrandIdle /\ GiIdle /\ HttpIdle
        /\ ClientIdle

NextSan ==
  \/ (CleanOnce /\ UNCHANGED notSan)
  \/ (CleanAgain /\ UNCHANGED notSan)

\* the cleaning steps on every text up to MaxLen tokens
SpecSan == InitSan /\ [][NextSan]_vars

InitDemo == PipeInit /\ SanIdle /\ DemoInit /\ BrandIdle /\ GiIdle /\ HttpIdle
        /\ ClientIdle

NextDemo ==
  \/ (HandlerLogText /\ UNCHANGED notDemo)
  \/ (MockProcessTextLog /\ UNCHANGED notDemo)

\* the demo entry points on every request text
SpecDemo == InitDemo /\ [][NextDemo]_vars

InitBrand == PipeInit /\ SanIdle /\ DemoIdle /\ BrandInit /\ GiIdle /\ HttpIdle
        /\ ClientIdle

NextBrand ==
  \/ (DetectBrand /\ UNCHANGED notBrand)

\* one BrandService instance asked repeatedly about a context
SpecBrand == InitBrand /\ [][NextBrand]_vars

InitInsights == PipeInit /\ SanIdle /\ DemoIdle /\ BrandIdle /\ GiInit /\ HttpIdle
        /\ ClientIdle

NextInsights ==
  \/ (GiInvoke /\ UNCHANGED notGi)
  \/ (GiSettles /\ UNCHANGED notGi)
  \/ (GiRejects /\ UNCHANGED notGi)
  \/ (GiResolves /\ UNCHANGED notGi)

\* generateItemInsights called with every array of items
SpecInsights == InitInsights /\ [][NextInsights]_vars

InitHttp == PipeInit /\ SanIdle /\ DemoIdle /\ BrandIdle /\ GiIdle /\ HttpInit
        /\ ClientIdle

NextHttp ==
  \/ (PostLogText /\ UNCHANGED notHttp)
  \/ (UploadRejects /\ UNCHANGED notHttp)
  \/ (PostLogVoice /\ UNCHANGED notHttp)
  \/ (TranscriptionSettles /\ UNCHANGED notHttp)
  \/ (NutritionSettles /\ UNCHANGED notHttp)

\* the API server answering one request
SpecHttp == InitHttp /\ [][NextHttp]_vars

InitClient == PipeInit /\ SanIdle /\ DemoIdle /\ BrandIdle /\ GiIdle /\ HttpIdle
              /\ ClientInit

NextClient ==
  \/ (SetTextInput /\ UNCHANGED notClient)
  \/ (HandleTextSubmit /\ UNCHANGED notClient)
  \/ (TextLogAnswers /\ UNCHANGED notClient)
  \/ (HandleVoiceLog /\ UNCHANGED notClient)
  \/ (VoiceLogAnswers /\ UNCHANGED notClient)
  \/ (ErrorLoggerLog /\ UNCHANGED notClient)
  \/ (SendLogsToServer /\ UNCHANGED notClient)
  \/ (SendSettles /\ UNCHANGED notClient)

\* the web client: the user's submissions and the logger's interval
SpecClient == InitClient /\ [][NextClient]_vars

-----------------------------------------------------------------------------
(* Properties *)

RECURSIVE SumCalories(_)
\* the arithmetic sum of the items' calorie numbers
SumCalories(items) ==
  IF items = <<>> THEN 0
  ELSE Head(items).estimatedCalories.n + SumCalories(Tail(items))

\* C1: every returned log's totalEstimatedCalories is the sum of the
\* estimatedCalories of its items, whatever total the collaborator reported.
C1_TotalIsSumOfItems ==
  pc = "returned" => result.totalEstimatedCalories = Num(SumCalories(result.items))

\* C2: no partial acceptance: a log is returned only if every element of the
\* parsed items array is well formed.
C2_NoPartialAcceptance ==
  pc = "returned" =>
    \A i \in 1..Len(parsedResponse.items.a) : WellFormedItem(parsedResponse.items.a[i])

\* C3: in every returned log each item has estimatedCalories >= 0 and, when
\* present, quantity > 0.
C3_ItemInvariants ==
  pc = "returned" =>
    \A i \in 1..Len(result.items) :
      /\ result.items[i].estimatedCalories.t = "number"
      /\ result.items[i].estimatedCalories.n >= 0
      /\ result.items[i].quantity.t # "undefined" =>
           result.items[i].quantity.t = "number" /\ result.items[i].quantity.n > 0

\* C4: extraction goes past validation only for an object whose meal is a
\* string and whose items is an array.
C4_TopLevelShapeRequired ==
  pc \in {"insights", "returned"} =>
    /\ parsedResponse.t = "object"
    /\ parsedResponse.meal.t = "string"
    /\ parsedResponse.items.t = "array"

\* the cause of the specification's taxonomy for the statement that failed
CauseOf(e) ==
  CASE e.at \in {"create", "content"} -> "collaborator_unreachable"
    [] e.at = "parse" -> "malformed_json"
    [] OTHER -> "invalid_structure"

\* C5: the error raised to the caller identifies the failing stage: two
\* failures of different causes never reach the caller as the same error.
C5_CausesDistinguishable ==
  (pc = "failed" /\ prev # NoFailure /\ CauseOf(prev.caught) # CauseOf(caught))
    => prev.thrown # thrown

\* C6: the rejection carries a typed reason: two rejections of parsed values
\* with different defects (not an object, missing items array, malformed item
\* at index N) never carry the same error.
C6_RejectionReasonTyped ==
  (/\ pc = "failed" /\ prev # NoFailure
   /\ prev.defect # NoDefect /\ DefectOf(parsedResponse) # NoDefect
   /\ prev.defect # DefectOf(parsedResponse))
    => prev.caught.error # caught.error

\* a valid top-level object whose items array is empty
ValidEmpty(parsed) ==
  /\ parsed.t = "object"
  /\ parsed.meal.t = "string" /\ parsed.meal.s # ""
  /\ parsed.items = ItemsArray(<<>>)

\* C7: a valid top-level object with an empty items array is never an error:
\* no insight call is issued, the request can return, and it returns that meal
\* with items = [] and totalEstimatedCalories = 0.
C7_EmptyItemsSucceed ==
  ValidEmpty(parsedResponse) =>
    /\ pc \in {"insights", "returned"}
    /\ thrown = "" /\ caught = NoErr
    /\ calls = <<>>
    /\ pc = "insights" => ENABLED Return
    /\ pc = "returned" => result = Log(parsedResponse.meal, <<>>, Num(0))

\* C7 witness: a request returned General with no items and a total of 0
C7_Witness ==
  /\ pc = "returned"
  /\ ValidEmpty(parsedResponse)
  /\ result = Log(Str("General"), <<>>, Num(0))

\* the keywords each demo entry point looks for
HandlerKeywords ==
  {"coffee", "sandwich", "lunch", "pizza", "beer", "lager", "burger", "salad"}

MockKeywords == {"coffee", "sandwich", "lunch", "pizza", "beer", "lager"}

KeywordsOf(by) == IF by = "handler" THEN HandlerKeywords ELSE MockKeywords

C9_ScenarioA ==
  (demoOut.status = 200 /\ demoText = Str(ScenarioAText)) =>
    /\ Len(demoOut.log.items) = 2
    /\ demoOut.log.items[1].quantity = Num(5)
    /\ demoOut.log.items[1].unit = Str("cup")
    /\ demoOut.log.items[1].estimatedCalories = Num(25)
    /\ demoOut.log.items[2].quantity = Num(3)
    /\ demoOut.log.items[2].unit = Str("pint")
    /\ demoOut.log.items[2].estimatedCalories = Num(540)
    /\ demoOut.log.totalEstimatedCalories = Num(565)

\* C10: the cleaning is idempotent: cleaning a cleaned text changes nothing.
C10_CleaningIdempotent ==
  Len(sanOut) = 2 => sanOut[2] = sanOut[1]

\* C11: the cleaning steps are total: on every text (empty, whitespace only,
\* prose, unbalanced fences) both services' cleaning can run, and what it
\* returns is again a text, no longer than the one it was given.
C11_CleaningTotal ==
  /\ sanPath = "" => ENABLED CleanOnce
  /\ sanPath # "" =>
       /\ Len(sanOut) >= 1
       /\ \A i \in 1..Len(sanOut) :
            sanOut[i] \in Seq(Alphabet) /\ Len(sanOut[i]) <= Len(sanIn)

\* C11 witness: a text of whitespace only was cleaned to the empty text
C11_Witness ==
  /\ sanIn = <<" ", "\n">>
  /\ sanPath = "primary"
  /\ Len(sanOut) >= 1 /\ sanOut[1] = <<>>

\* a NutritionLog as the specification defines it
ValidLog(parsed) ==
  /\ parsed.t = "object"
  /\ parsed.meal.t = "string" /\ parsed.meal.s # ""
  /\ parsed.items.t = "array"
  /\ \A i \in 1..Len(parsed.items.a) : WellFormedItem(parsed.items.a[i])

\* a valid log, in a json code fence, with a comma before the closing brace
ScenarioC(reply) ==
  /\ reply.kind = "text"
  /\ ValidLog(reply.json)
  /\ reply.text = Fenced(<<"json">>, WithTrailingComma(JsonText(reply.json)))

\* the dictionary keys found in the lowercased context, by position
KeysIn(str) ==
  {i \in 1..Len(brandMap) : Includes(ToLowerCase(str), brandMap[i].key)}

\* the brand an alias stands for
AliasBrands ==
  {BrandOfKey("mcdonalds"), BrandOfKey("burger king"), BrandOfKey("pizza hut")}

\* C13: detectBrand returns the first dictionary entry, in insertion order,
\* whose key is a substring of the lowercased context; an alias (mcdonald, mcd,
\* bk, ph) decides only when no key is a substring; "lunch from mcd's today"
\* yields the McDonald's entry.
C13_FirstKeyWins ==
  (brandCtx.t = "string" /\ brandCtx.s # "") =>
    \A k \in 1..Len(brandOut) :
      LET out == brandOut[k].brand
          low == ToLowerCase(brandCtx.s)
      IN  /\ \A i \in KeysIn(brandCtx.s) :
               (\A j \in KeysIn(brandCtx.s) : i <= j) => out = brandMap[i].info
          /\ KeysIn(brandCtx.s) = {} =>
               /\ out \in AliasBrands \cup {NoBrand}
               /\ out.name = "McDonald's" => Includes(low, "mcd")
               /\ out.name = "Burger King" => Includes(low, "bk")
               /\ out.name = "Pizza Hut" => Includes(low, "ph")
               /\ out = NoBrand =>
                    ~(Includes(low, "mcd") \/ Includes(low, "bk") \/ Includes(low, "ph"))
          /\ brandCtx.s = ScenarioContext => out.name = "McDonald's"

\* C13 witness: detectBrand answered the scenario context with McDonald's
C13_Witness ==
  /\ brandCtx = Str(ScenarioContext)
  /\ Len(brandOut) >= 1
  /\ brandOut[1].brand = Brand("McDonald's", "fries", "#FFC72C")

SameItem(a, b) ==
  /\ a.t = b.t /\ a.name = b.name /\ a.estimatedCalories = b.estimatedCalories
  /\ a.context = b.context /\ a.quantity = b.quantity /\ a.unit = b.unit
  /\ a.description = b.description

\* the per-item call failed: network error, no content, text that is no JSON
\* array, or an array whose filtering raised
CallFailed(reply) ==
  \/ reply.kind # "text"
  \/ reply.json.t # "array"
  \/ \E k \in 1..Len(reply.json.a) : reply.json.a[k].t = "null"

\* C15: generateItemInsights preserves count and order: the array it resolves
\* with has one element per input item, the i-th being the i-th input item;
\* an item whose call failed has insights = [], every other item carries the
\* insights its own call produced; and no failing call keeps a list of items
\* (context a string or null) from being answered.
C15_CountAndOrderPreserved ==
  /\ giSt = "resolved" =>
       /\ Len(giOut) = Len(giItems)
       /\ \A i \in 1..Len(giOut) :
            /\ SameItem(giOut[i], giItems[i])
            /\ CallFailed(giReplies[i]) => giOut[i].insights = <<>>
            /\ ~CallFailed(giReplies[i]) =>
                 giOut[i].insights = SelectSeq(giReplies[i].json.a, KeepInsight)
  /\ (\A i \in 1..Len(giItems) : giItems[i].context.t \in {"string", "null"}) =>
       /\ giSt # "rejected"
       /\ \A i \in 1..Len(giCalls) : giCalls[i].st # "rejected"

\* C15 witness: two different items, the call of the first failed, both are
\* returned in order and only the first has no insights
C15_Witness ==
  /\ giSt = "resolved"
  /\ Len(giItems) = 2 /\ Len(giOut) = 2
  /\ giItems[1] # giItems[2]
  /\ giReplies[1].kind = "throws" /\ giOut[1].insights = <<>>
  /\ giOut[2].insights # <<>>

\* C16: no exception crosses the insight generator: a request whose reply
\* passed the validation never fails in generateItemInsights.
C16_InsightsNeverFailRequest ==
  pc = "failed" => caught.at # "insights"

NonEmptyString(v) == v.t = "string" /\ v.s # ""

\* C17: every insight attached to a returned item has a type among warning,
\* info and positive, and a non-empty string title, message and icon.
C17_InsightsWellTyped ==
  giSt = "resolved" =>
    \A i \in 1..Len(giOut) : \A k \in 1..Len(giOut[i].insights) :
      LET e == giOut[i].insights[k]
      IN  /\ e.type \in {Str("warning"), Str("info"), Str("positive")}
          /\ NonEmptyString(e.title)
          /\ NonEmptyString(e.message)
          /\ NonEmptyString(e.icon)

\* C18: the brand of every returned item is absent or the dictionary entry
\* detectBrand returns for the item's context, whatever brand the input item
\* carried.
C18_BrandNeverInvented ==
  giSt = "resolved" =>
    \A i \in 1..Len(giOut) :
      /\ \/ giOut[i].brand = NoBrand
         \/ \E k \in 1..Len(brandMap) : brandMap[k].info = giOut[i].brand
      /\ giOut[i].brand = detectBrand(giItems[i].context).brand

\* C18 witness: an item that carried a brand of its own is returned without
\* one, the item from Pret with the dictionary's entry
C18_Witness ==
  /\ giSt = "resolved"
  /\ Len(giOut) = 2
  /\ giItems[1] = CarryingItem /\ giOut[1].brand = NoBrand
  /\ giOut[2].brand = Brand("Pret A Manger", "croissant", "#E31837")

\* C19: on the voice route a transcription that errors or yields no text
\* (empty or whitespace only) is answered with the transcription failure, and
\* parseAndEstimateNutrition is only ever called with a non-empty text.
C19_NoEmptyTextToExtract ==
  httpReq.route = "voice" =>
    /\ \A k \in 1..Len(httpCalls) :
         httpCalls[k].t = "string" /\ ~Blank(httpCalls[k].s)
    /\ (/\ httpPc = "done" /\ httpReq.file = "audio"
        /\ (~transcriptionResult.ok \/ NoText(transcriptionResult.text))) =>
         httpRes = VoiceErrorResponse(TranscribeMsg)

\* C20: the text route answers 400 'No text provided' without calling
\* parseAndEstimateNutrition when body.text is missing, not a string, or blank
\* after trimming; otherwise it calls it exactly once, with that text.
C20_TextEndpointValidates ==
  httpReq.route = "text" =>
    IF httpReq.text.t = "string" /\ ~Blank(httpReq.text.s)
    THEN httpPc # "idle" =>
           /\ httpCalls = <<httpReq.text>>
           /\ httpRes.status # 400
    ELSE /\ httpCalls = <<>>
         /\ httpPc # "idle" =>
              /\ httpPc = "done"
              /\ httpRes.status = 400
              /\ httpRes.error = "No text provided"

\* C20 witness: a text of one space was answered 400 without a call
C20_Witness ==
  /\ httpReq = HttpRequest("text", Str(" "), "none")
  /\ httpPc = "done"
  /\ httpRes.status = 400 /\ httpRes.error = "No text provided"
  /\ httpCalls = <<>>

TranscriptionFailed == httpCaught.at = "transcribe"

NutritionFailed == httpCaught.at \in {"create", "parse", "validate"}

\* C21: on the voice route a transcription failure is answered 422 with the
\* transcription message and every nutrition-parsing failure 422 with the
\* parse message, never with the transcription message.
C21_FailureKindsDistinct ==
  (httpReq.route = "voice" /\ httpPc = "done") =>
    /\ TranscriptionFailed =>
         httpRes = VoiceErrorResponse(TranscribeMsg) /\ httpRes.status = 422
    /\ NutritionFailed =>
         /\ httpRes.status = 422
         /\ httpRes.message =
              "Failed to parse food information from the transcribed text."

\* C22: an error of the OpenAI API call itself (bad API key, service
\* unreachable), in transcription or in nutrition parsing, is answered with
\* status 500 on both routes.
C22_ApiErrorsAnswered500 ==
  (httpPc = "done" /\ httpCaught.error \in ApiErrors) => httpRes.status = 500

\* C23: an upload the middleware rejects is answered 400 with a structured
\* body (Invalid file type, File too large), a request without a file 400
\* No audio file provided, and none of them reaches transcription.
C23_UploadRejections ==
  (httpReq.route = "voice" /\ httpReq.file # "audio") =>
    /\ transcriptionResult = NoTranscription /\ httpCalls = <<>>
    /\ httpPc \in {"idle", "done"}
    /\ httpPc = "done" =>
         /\ httpRes.status = 400
         /\ httpReq.file = "badType" => httpRes.error = "Invalid file type"
         /\ httpReq.file = "tooLarge" => httpRes.error = "File too large"
         /\ httpReq.file = "none" => httpRes.error = "No audio file provided"

\* C24: fan-out/fan-in barrier: the calls for all items are issued together,
\* generateItemInsights completes only when every per-item call has settled,
\* and what it returns depends on each item and its own call's reply alone,
\* not on the order of completion.
C24_FanOutFanInBarrier ==
  /\ giSt # "idle" => Len(giCalls) = Len(giItems)
  /\ giSt \in {"resolved", "rejected"} =>
       \A i \in 1..Len(giCalls) : giCalls[i].st # "pending"
  /\ giSt = "resolved" =>
       giOut = [i \in 1..Len(giItems) |->
                  Annotated(giItems[i], InsightsOf(giReplies[i]),
                            detectBrand(giItems[i].context).brand)]

\* the element has all four fields
HasAllFields(e) == e.t = "object" /\ KeepInsight(e)

\* C25: when an insight reply parses to an array, the item gets exactly the
\* elements that have type, title, message and icon, in their order; an
\* element lacking a field (null included) is dropped alone.
C25_LenientArrayCheck ==
  giSt = "resolved" =>
    \A i \in 1..Len(giOut) :
      (/\ giReplies[i].kind = "text"
       /\ giReplies[i].json.t = "array"
       /\ Parses(CleanInsight(giReplies[i].text), giReplies[i].json)) =>
        giOut[i].insights = SelectSeq(giReplies[i].json.a, HasAllFields)

\* C27: generateItemInsights leaves its argument as it was, and every item
\* it returns has the name, estimatedCalories, context, quantity, unit and
\* description of the input item at its position.
C27_InputUnchanged ==
  [][/\ giItems' = giItems
     /\ giSt' = "resolved" =>
          /\ Len(giOut') = Len(giItems)
          /\ \A i \in 1..Len(giItems) : SameItem(giOut'[i], giItems[i])]_vars

\* C27 witness: the item that carried insights and a brand came back with
\* its own fields, while the argument still holds the item as it was given
C27_Witness ==
  /\ giSt = "resolved"
  /\ Len(giItems) = 1 /\ giItems[1] = CarryingItem
  /\ giOut[1] # giItems[1]
  /\ SameItem(giOut[1], CarryingItem)

\* C28: no insight call is issued before the primary reply has been
\* received, cleaned, parsed and validated; when the primary call fails or
\* returns nothing, or parsing or validation fails, the request fails with no
\* insight call made.
C28_InsightsAfterValidation ==
  /\ pc \in {"idle", "awaiting", "responded"} => calls = <<>>
  /\ (pc = "failed" /\ caught.at # "insights") => calls = <<>>
  /\ caught.at \in {"create", "content", "parse", "validate", "reduce"} =>
       pc = "failed" /\ thrown # ""
  /\ calls # <<>> =>
       /\ parsedResponse.t = "object"
       /\ Truthy(parsedResponse.meal)
       /\ parsedResponse.items.t = "array"
       /\ Len(calls) = Len(parsedResponse.items.a)

\* C28 witness: a reply with items but no meal failed the validation and no
\* insight call was made
C28_Witness ==
  /\ pc = "failed" /\ caught.at = "validate"
  /\ parsedResponse.items.t = "array" /\ Len(parsedResponse.items.a) > 0
  /\ calls = <<>>

\* a fenced code block: a fence, an optional language tag, a line break, a
\* body holding no fence, and the closing fence
IsFencedBlock(c) ==
  /\ Len(c) >= 3
  /\ c[1] = Fence /\ c[Len(c)] = Fence
  /\ \/ c[2] = "\n"
     \/ Len(c) >= 4 /\ c[2] \in {"json", "x"} /\ c[3] = "\n"
  /\ \A i \in 2..(Len(c) - 1) : c[i] # Fence

\* what stands between the line break after the tag and the closing fence
FencedBody(c) ==
  IF c[2] = "\n" THEN SubSeq(c, 3, Len(c) - 1) ELSE SubSeq(c, 4, Len(c) - 1)

\* C26: a reply that is a fenced code block, with no tag, the tag json or
\* any other tag, is cleaned to what the cleaning makes of its body alone:
\* neither fence nor the tag remains.
C26_FenceAndTagStripped ==
  (Len(sanOut) >= 1 /\ IsFencedBlock(Trim(sanIn))) =>
     sanOut[1] = Clean(sanPath, FencedBody(Trim(sanIn)))

\* C29: when the text endpoint answers a submission successfully, the day's
\* log grows by exactly the items of that answer, in order, and the total
\* shown grows by the sum of their calories.
C29_TextItemsAppended ==
  [][(textPc = "fetching" /\ textPc' = "idle" /\ toast'.kind = "success") =>
       /\ foodEntries' = foodEntries \o data'.items
       /\ AppTotalCalories' = Num(AppTotalCalories.n + SumCalories(data'.items))]_vars

\* C30: an entry leaves the client buffer only if the server has logged it.
C30_NoEntryLostUnsent ==
  [][\A k \in 1..Len(logs) :
       (\A j \in 1..Len(logs') : logs'[j] # logs[k]) => logs[k] \in serverLogged']_vars

\* C12: scenario C: a primary reply that is a valid NutritionLog wrapped in a
\* code fence with a trailing comma before the closing brace is parsed and the
\* request goes on to the insights (no failure).
C12_ScenarioC ==
  [][(pc = "responded" /\ ScenarioC(response)) => pc' = "insights"]_vars

====
